---- MODULE Spec2Model ----
(***************************************************************************)
(* Match scoreboard of lujungchang-source/matchscore.                      *)
(*                                                                         *)
(* A match result is a JavaScript string; it is modelled as a sequence of  *)
(* one-character strings.  Source indices are 0-based and are kept         *)
(* 0-based here: charAt(s, i) is s[i] of the source.                       *)
(*                                                                         *)
(* The budget engine (src/Budget.ts, src/Period.ts, BudgetManager in       *)
(* src/unnamed/part_000) computes in IEEE 754 doubles and in dayjs         *)
(* instants; both are modelled by what they compute.                       *)
(*                                                                         *)
(* Specifications:                                                         *)
(*   Spec        the MatchService object (src/MatchService.ts), whose      *)
(*               stored string starts as "HHA;A";                          *)
(*   SpecUpdater a caller that threads an arbitrary string through the     *)
(*               pure function updateMatchResult of                        *)
(*               src/MatchResultUpdater.ts;                                *)
(*   SpecParser  the two parsers of a match result;                        *)
(*   SpecManager BudgetManager.QueryTotalAmount over the lists the budget  *)
(*               service may return;                                       *)
(*   SpecBudget  a Budget object, its constructor and setters;             *)
(*   SpecPeriod  a Period object of either Period class;                   *)
(*   SpecServiceLog  the MatchService with the log of the calls made;      *)
(*   SpecHalftime the updater, with the first half as it stood at halftime;*)
(*   SpecAmount  Budget.overlappingAmount of a budget and a period;        *)
(*   SpecRanges  QueryTotalAmount of a range and of its two parts;         *)
(*   SpecBudgetService  add, update and delete of the BudgetService.       *)
(***************************************************************************)
EXTENDS Integers, Sequences, FiniteSets, TLC

VARIABLES
    mockMatchData,      \* MatchService.mockMatchData
    originalMatchData,  \* local const of MatchService.updateMatchResult
    svcEvent,           \* event argument of the last MatchService call
    response,           \* string returned by the last MatchService call
    result,             \* the string a caller of the updater holds
    lastInput,          \* currentMatchResult argument of the last updater call
    lastEvent,          \* event argument of the last updater call
    outcome,            \* what the last updater call returned or threw
    parseInput,         \* the value handed to parseMatchResultToDisplay
    parsedBy,           \* which of the two parsers ran last
    display,            \* the display string the last parse returned
    budgets,            \* the list budgetService.getAll() returns
    queryArgs,          \* the start and end handed to QueryTotalAmount
    theBudget,          \* a Budget object: its _yearMonth and _amount
    thePeriod,          \* a Period object: its class, _start and _end
    lastOp,             \* the last operation of the budget engine and its outcome
    callLog,            \* the calls made to the MatchService so far, in order
    halftime            \* the first half as it stood when the held string first had a ';'

vars == <<mockMatchData, originalMatchData, svcEvent, response,
          result, lastInput, lastEvent, outcome,
          parseInput, parsedBy, display,
          budgets, queryArgs, theBudget, thePeriod, lastOp, callLog, halftime>>

svcVars == <<mockMatchData, originalMatchData, svcEvent, response, callLog>>

updVars == <<result, lastInput, lastEvent, outcome, halftime>>

parseVars == <<parseInput, parsedBy, display>>

budgetVars == <<budgets, queryArgs, theBudget, thePeriod, lastOp>>

\* most calls a logged caller of the MatchService makes
MaxCalls == 3

matchVars == <<svcVars, updVars, parseVars>>

(***************************************************************************)
(* Bounds                                                                  *)
(***************************************************************************)
\* longest string a caller of the updater holds
MaxLen == 5

\* longest string the MatchService stores
MaxDataLen == 7

(***************************************************************************)
(* Event enum                                                              *)
(***************************************************************************)
HomeGoal == 1

AwayGoal == 2

CancelHomeGoal == 3

CancelAwayGoal == 4

NextPeriod == 5

\* the five defined tags
Event == {HomeGoal, AwayGoal, CancelHomeGoal, CancelAwayGoal, NextPeriod}

\* tags outside the enum that a caller can pass (999 as Event)
UnknownEvents == {0, 999}

\* match ids callers pass
MatchIds == {123, 456}

\* characters of a match string; "x" stands for any character outside H, A, ;
Chars == {"H", "A", ";", "x"}

\* all strings of length at most n
Strings(n) == UNION {[1..k -> Chars] : k \in 0..n}

(***************************************************************************)
(* JavaScript string primitives, 0-based                                   *)
(***************************************************************************)
charAt(s, i) == s[i + 1]

\* s.substring(from, to)
substring(s, from, to) == SubSeq(s, from + 1, to)

RECURSIVE indexFrom(_, _, _)
indexFrom(s, ch, i) ==
    IF i >= Len(s) THEN -1
    ELSE IF charAt(s, i) = ch THEN i
    ELSE indexFrom(s, ch, i + 1)

\* variant: the position of the LAST ch (s.lastIndexOf(ch))
indexOf_last(s, ch) ==
    LET hits == {j \in 0..(Len(s) - 1) : s[j + 1] = ch}
    IN  IF hits = {} THEN -1 ELSE CHOOSE m \in hits : \A n \in hits : n <= m

\* s.indexOf(ch)
indexOf(s, ch) == indexFrom(s, ch, 0)

\* variant: s.endsWith(ch)
includes_endsWith(s, ch) == Len(s) > 0 /\ s[Len(s)] = ch

\* s.includes(ch)
includes(s, ch) == \E i \in 1..Len(s) : s[i] = ch

(***************************************************************************)
(* Results of a call: a returned string or a thrown                        *)
(* UpdateMatchResultException(event, originalMatchResult, message)         *)
(***************************************************************************)
Return(s) == [kind |-> "return", value |-> s]

\* variant: the constructor stores the message in originalMatchResult
UpdateMatchResultException_swapped(event, originalMatchResult, message) ==
    [kind |-> "throw", event |-> event,
     originalMatchResult |-> message, message |-> originalMatchResult]

UpdateMatchResultException(event, originalMatchResult, message) ==
    [kind |-> "throw", event |-> event,
     originalMatchResult |-> originalMatchResult, message |-> message]

NoCall == [kind |-> "none"]

\* UpdateMatchResultException.toString and the identical template of
\* MatchService.updateMatchResult
exceptionReport(event, originalMatchResult) ==
    <<"Update Match Result Exception, Event: ", event,
      ", originalMatchResult: ", originalMatchResult>>

(***************************************************************************)
(* The backward scans of cancelHomeGoal / cancelAwayGoal:                  *)
(*   for (let i = from; i > above; i--) if (s[i] === ch) { idx = i; break }*)
(* with idx initially -1.                                                  *)
(***************************************************************************)
\* variant: the scan runs upward and stops at the first match
scanBackward_forward(s, ch, i, above) ==
    LET hits == {j \in (above + 1)..i : s[j + 1] = ch}
    IN  IF hits = {} THEN -1 ELSE CHOOSE m \in hits : \A n \in hits : m <= n

\* variant: the scan starts one position too low (i = length - 2)
scanBackward_skipLast(s, ch, i, above) ==
    LET hits == {j \in (above + 1)..(i - 1) : s[j + 1] = ch}
    IN  IF hits = {} THEN -1 ELSE CHOOSE m \in hits : \A n \in hits : n <= m

RECURSIVE scanBackward(_, _, _, _)
scanBackward(s, ch, i, above) ==
    IF ~(i > above) THEN -1
    ELSE IF charAt(s, i) = ch THEN i
    ELSE scanBackward(s, ch, i - 1, above)

\* variant: the cut is one position too far right
removeAt_next(matchResult, idx) ==
    SubSeq(matchResult, 1, idx + 1) \o SubSeq(matchResult, idx + 3, Len(matchResult))

\* matchResult.substring(0, idx) + matchResult.substring(idx + 1)
removeAt(matchResult, idx) ==
    substring(matchResult, 0, idx) \o substring(matchResult, idx + 1, Len(matchResult))

\* variant: behind a ';' at index 0 nothing is searched
cancelHomeGoal_nothingBehindLeadingSemicolon(matchResult, event) ==
    IF matchResult = <<>>
    THEN UpdateMatchResultException(event, matchResult,
             "Cannot cancel home goal: no match data available")
    ELSE
    LET semicolonIndex == indexOf(matchResult, ";")
        secondHalf == scanBackward(matchResult, "H", Len(matchResult) - 1, semicolonIndex)
        lastHIndex ==
            IF semicolonIndex = -1
            THEN scanBackward(matchResult, "H", Len(matchResult) - 1, -1)
            ELSE IF semicolonIndex = 0
                 THEN -1
                 ELSE IF secondHalf = -1 /\ charAt(matchResult, semicolonIndex - 1) = "H"
                      THEN semicolonIndex - 1
                      ELSE secondHalf
    IN  IF lastHIndex = -1
        THEN UpdateMatchResultException(event, matchResult,
                 "Cannot cancel home goal: no 'H' found to cancel")
        ELSE Return(removeAt(matchResult, lastHIndex))

\* variant: a ';' at index 0 is rejected as an invalid match state
cancelHomeGoal_semicolonAtStart(matchResult, event) ==
    IF matchResult = <<>>
    THEN UpdateMatchResultException(event, matchResult,
             "Cannot cancel home goal: no match data available")
    ELSE
    LET semicolonIndex == indexOf(matchResult, ";")
        secondHalf == scanBackward(matchResult, "H", Len(matchResult) - 1, semicolonIndex)
        lastHIndex ==
            IF semicolonIndex = -1
            THEN scanBackward(matchResult, "H", Len(matchResult) - 1, -1)
            ELSE IF secondHalf = -1 /\ semicolonIndex > 0
                    /\ charAt(matchResult, semicolonIndex - 1) = "H"
                 THEN semicolonIndex - 1
                 ELSE secondHalf
    IN  IF semicolonIndex = 0
        THEN UpdateMatchResultException(event, matchResult,
                 "Cannot cancel home goal: semicolon at beginning indicates invalid match state")
        ELSE IF lastHIndex = -1
        THEN UpdateMatchResultException(event, matchResult,
                 "Cannot cancel home goal: no 'H' found to cancel")
        ELSE Return(removeAt(matchResult, lastHIndex))

\* !matchResult holds of a string exactly when it is empty
cancelHomeGoal(matchResult, event) ==
    IF matchResult = <<>>
    THEN UpdateMatchResultException(event, matchResult,
             "Cannot cancel home goal: no match data available")
    ELSE
    LET semicolonIndex == indexOf(matchResult, ";")
        secondHalf == scanBackward(matchResult, "H", Len(matchResult) - 1, semicolonIndex)
        lastHIndex ==
            IF semicolonIndex = -1
            THEN scanBackward(matchResult, "H", Len(matchResult) - 1, -1)
            ELSE IF secondHalf = -1 /\ semicolonIndex > 0
                    /\ charAt(matchResult, semicolonIndex - 1) = "H"
                 THEN semicolonIndex - 1
                 ELSE secondHalf
    IN  IF lastHIndex = -1
        THEN UpdateMatchResultException(event, matchResult,
                 "Cannot cancel home goal: no 'H' found to cancel")
        ELSE Return(removeAt(matchResult, lastHIndex))

\* variant: the fallback searches the whole first half
cancelAwayGoal_wholeFirstHalf(matchResult, event) ==
    IF matchResult = <<>>
    THEN UpdateMatchResultException(event, matchResult,
             "Cannot cancel away goal: no match data available")
    ELSE
    LET semicolonIndex == indexOf(matchResult, ";")
        secondHalf == scanBackward(matchResult, "A", Len(matchResult) - 1, semicolonIndex)
        lastAIndex ==
            IF semicolonIndex = -1
            THEN scanBackward(matchResult, "A", Len(matchResult) - 1, -1)
            ELSE IF secondHalf = -1
                 THEN scanBackward(matchResult, "A", semicolonIndex - 1, -1)
                 ELSE secondHalf
    IN  IF lastAIndex = -1
        THEN UpdateMatchResultException(event, matchResult,
                 "Cannot cancel away goal: no 'A' found to cancel")
        ELSE Return(removeAt(matchResult, lastAIndex))

\* variant: the fallback removes the ';' instead of the goal before it
cancelAwayGoal_fallbackRemovesMarker(matchResult, event) ==
    IF matchResult = <<>>
    THEN UpdateMatchResultException(event, matchResult,
             "Cannot cancel away goal: no match data available")
    ELSE
    LET semicolonIndex == indexOf(matchResult, ";")
        secondHalf == scanBackward(matchResult, "A", Len(matchResult) - 1, semicolonIndex)
        lastAIndex ==
            IF semicolonIndex = -1
            THEN scanBackward(matchResult, "A", Len(matchResult) - 1, -1)
            ELSE IF secondHalf = -1 /\ semicolonIndex > 0
                    /\ charAt(matchResult, semicolonIndex - 1) = "A"
                 THEN semicolonIndex
                 ELSE secondHalf
    IN  IF lastAIndex = -1
        THEN UpdateMatchResultException(event, matchResult,
                 "Cannot cancel away goal: no 'A' found to cancel")
        ELSE Return(removeAt(matchResult, lastAIndex))

cancelAwayGoal(matchResult, event) ==
    IF matchResult = <<>>
    THEN UpdateMatchResultException(event, matchResult,
             "Cannot cancel away goal: no match data available")
    ELSE
    LET semicolonIndex == indexOf(matchResult, ";")
        secondHalf == scanBackward(matchResult, "A", Len(matchResult) - 1, semicolonIndex)
        lastAIndex ==
            IF semicolonIndex = -1
            THEN scanBackward(matchResult, "A", Len(matchResult) - 1, -1)
            ELSE IF secondHalf = -1 /\ semicolonIndex > 0
                    /\ charAt(matchResult, semicolonIndex - 1) = "A"
                 THEN semicolonIndex - 1
                 ELSE secondHalf
    IN  IF lastAIndex = -1
        THEN UpdateMatchResultException(event, matchResult,
                 "Cannot cancel away goal: no 'A' found to cancel")
        ELSE Return(removeAt(matchResult, lastAIndex))

\* variant: the default branch of the switch returns the string unchanged
updateMatchResult_ignoreUnknown(matchId, event, currentMatchResult) ==
    CASE event = HomeGoal -> Return(currentMatchResult \o <<"H">>)
      [] event = AwayGoal -> Return(currentMatchResult \o <<"A">>)
      [] event = CancelHomeGoal -> cancelHomeGoal(currentMatchResult, event)
      [] event = CancelAwayGoal -> cancelAwayGoal(currentMatchResult, event)
      [] event = NextPeriod ->
            IF ~includes(currentMatchResult, ";")
            THEN Return(currentMatchResult \o <<";">>)
            ELSE Return(currentMatchResult)
      [] OTHER -> Return(currentMatchResult)

\* variant: the AwayGoal branch is a copy of the HomeGoal branch
updateMatchResult_awayAsHome(matchId, event, currentMatchResult) ==
    CASE event = HomeGoal -> Return(currentMatchResult \o <<"H">>)
      [] event = AwayGoal -> Return(currentMatchResult \o <<"H">>)
      [] event = CancelHomeGoal -> cancelHomeGoal(currentMatchResult, event)
      [] event = CancelAwayGoal -> cancelAwayGoal(currentMatchResult, event)
      [] event = NextPeriod ->
            IF ~includes(currentMatchResult, ";")
            THEN Return(currentMatchResult \o <<";">>)
            ELSE Return(currentMatchResult)
      [] OTHER -> UpdateMatchResultException(event, currentMatchResult,
                      <<"Unknown event: ", event>>)

\* variant: NextPeriod appends ';' without looking at the string
updateMatchResult_alwaysAppend(matchId, event, currentMatchResult) ==
    CASE event = HomeGoal -> Return(currentMatchResult \o <<"H">>)
      [] event = AwayGoal -> Return(currentMatchResult \o <<"A">>)
      [] event = CancelHomeGoal -> cancelHomeGoal(currentMatchResult, event)
      [] event = CancelAwayGoal -> cancelAwayGoal(currentMatchResult, event)
      [] event = NextPeriod -> Return(currentMatchResult \o <<";">>)
      [] OTHER -> UpdateMatchResultException(event, currentMatchResult,
                      <<"Unknown event: ", event>>)

\* variant: the CancelHomeGoal branch calls cancelAwayGoal
updateMatchResult_cancelHomeByAway(matchId, event, currentMatchResult) ==
    CASE event = HomeGoal -> Return(currentMatchResult \o <<"H">>)
      [] event = AwayGoal -> Return(currentMatchResult \o <<"A">>)
      [] event = CancelHomeGoal -> cancelAwayGoal(currentMatchResult, event)
      [] event = CancelAwayGoal -> cancelAwayGoal(currentMatchResult, event)
      [] event = NextPeriod ->
            IF ~includes(currentMatchResult, ";")
            THEN Return(currentMatchResult \o <<";">>)
            ELSE Return(currentMatchResult)
      [] OTHER -> UpdateMatchResultException(event, currentMatchResult,
                      <<"Unknown event: ", event>>)

updateMatchResult(matchId, event, currentMatchResult) ==
    CASE event = HomeGoal -> Return(currentMatchResult \o <<"H">>)
      [] event = AwayGoal -> Return(currentMatchResult \o <<"A">>)
      [] event = CancelHomeGoal -> cancelHomeGoal(currentMatchResult, event)
      [] event = CancelAwayGoal -> cancelAwayGoal(currentMatchResult, event)
      [] event = NextPeriod ->
            IF ~includes(currentMatchResult, ";")
            THEN Return(currentMatchResult \o <<";">>)
            ELSE Return(currentMatchResult)
      [] OTHER -> UpdateMatchResultException(event, currentMatchResult,
                      <<"Unknown event: ", event>>)

(***************************************************************************)
(* A caller of the pure updater: it passes the string it holds and keeps   *)
(* the returned string; a throw leaves the held string as it was.  The     *)
(* first conjunct of CallUpdater only keeps the held string within MaxLen. *)
(***************************************************************************)
\* what is before the first ';' of a string that has one
atHalftime(s) ==
    IF includes(s, ";")
    THEN [seen |-> TRUE, firstHalf |-> substring(s, 0, indexOf(s, ";"))]
    ELSE [seen |-> FALSE, firstHalf |-> <<>>]

InitUpdater ==
    /\ result \in Strings(MaxLen)
    /\ lastInput = <<>>
    /\ lastEvent = 0
    /\ outcome = NoCall
    /\ halftime = atHalftime(result)

CallUpdater(matchId, event) ==
    LET r == updateMatchResult(matchId, event, result)
    IN  /\ r.kind = "return" => Len(r.value) <= MaxLen
        /\ lastInput' = result
        /\ lastEvent' = event
        /\ outcome' = r
        /\ result' = IF r.kind = "return" THEN r.value ELSE result

(***************************************************************************)
(* MatchService.  updateMatchResult of the updater throws nothing but      *)
(* UpdateMatchResultException, so the rethrow of line 74 and the outer     *)
(* catch of lines 101-103 are never taken.  The first conjunct of the      *)
(* action only keeps the stored string within MaxDataLen.                  *)
(***************************************************************************)
InitService ==
    /\ mockMatchData = <<"H", "H", "A", ";", "A">>
    /\ originalMatchData = <<>>
    /\ svcEvent = 0
    /\ response = <<>>
    /\ callLog = <<>>

\* MatchService.queryMatchResult: nothing in its try block throws
queryMatchResult(matchId) == mockMatchData

eventDescription(event) ==
    CASE event = HomeGoal -> "Home team scored a goal"
      [] event = AwayGoal -> "Away team scored a goal"
      [] event = CancelHomeGoal -> "Home team goal cancelled"
      [] event = CancelAwayGoal -> "Away team goal cancelled"
      [] event = NextPeriod -> "Match period updated"
      [] OTHER -> "Unknown event"

MatchService_updateMatchResult_clearsOnFailure(matchId, event) ==
    LET r == updateMatchResult(matchId, event, mockMatchData)
    IN  /\ r.kind = "return" => Len(r.value) <= MaxDataLen
        /\ originalMatchData' = mockMatchData
        /\ svcEvent' = event
        /\ IF r.kind = "throw"
           THEN /\ mockMatchData' = <<>>
                /\ response' = exceptionReport(r.event, r.originalMatchResult)
           ELSE /\ mockMatchData' = r.value
                /\ response' = <<"Match ", matchId, " updated successfully: ",
                                 eventDescription(event), " (Event: ", event, ")">>

MatchService_updateMatchResult(matchId, event) ==
    LET r == updateMatchResult(matchId, event, mockMatchData)
    IN  /\ r.kind = "return" => Len(r.value) <= MaxDataLen
        /\ originalMatchData' = mockMatchData
        /\ svcEvent' = event
        /\ IF r.kind = "throw"
           THEN /\ mockMatchData' = mockMatchData
                /\ response' = exceptionReport(r.event, r.originalMatchResult)
           ELSE /\ mockMatchData' = r.value
                /\ response' = <<"Match ", matchId, " updated successfully: ",
                                 eventDescription(event), " (Event: ", event, ")">>

(***************************************************************************)
(* The display parsers.  A JavaScript value handed to them is a string,    *)
(* null or undefined; the returned template string                         *)
(* `${homeGoals}:${awayGoals} (${half})` is kept as the tuple of its parts.*)
(***************************************************************************)
JsString(s) == [type |-> "string", chars |-> s]

JsNull == [type |-> "null"]

JsUndefined == [type |-> "undefined"]

JsValues(n) == {JsString(s) : s \in Strings(n)} \cup {JsNull, JsUndefined}

displayString(homeGoals, awayGoals, isSecondHalf) ==
    <<homeGoals, ":", awayGoals, " (",
      IF isSecondHalf THEN "Second Half" ELSE "First Half", ")">>

\* variant: every ';' toggles the half flag
RECURSIVE parseLoop_toggle(_, _, _, _, _)
parseLoop_toggle(matchResult, i, homeGoals, awayGoals, isSecondHalf) ==
    IF ~(i < Len(matchResult))
    THEN displayString(homeGoals, awayGoals, isSecondHalf)
    ELSE LET char == matchResult[i + 1]
         IN  CASE char = "H" ->
                    parseLoop_toggle(matchResult, i + 1, homeGoals + 1, awayGoals, isSecondHalf)
               [] char = "A" ->
                    parseLoop_toggle(matchResult, i + 1, homeGoals, awayGoals + 1, isSecondHalf)
               [] char = ";" ->
                    parseLoop_toggle(matchResult, i + 1, homeGoals, awayGoals, ~isSecondHalf)
               [] OTHER ->
                    parseLoop_toggle(matchResult, i + 1, homeGoals, awayGoals, isSecondHalf)

\* for (let i = 0; i < matchResult.length; i++) switch (matchResult[i]) ...
\* followed by the return of the template string
RECURSIVE parseLoop(_, _, _, _, _)
parseLoop(matchResult, i, homeGoals, awayGoals, isSecondHalf) ==
    IF ~(i < Len(matchResult))
    THEN displayString(homeGoals, awayGoals, isSecondHalf)
    ELSE LET char == charAt(matchResult, i)
         IN  CASE char = "H" ->
                    parseLoop(matchResult, i + 1, homeGoals + 1, awayGoals, isSecondHalf)
               [] char = "A" ->
                    parseLoop(matchResult, i + 1, homeGoals, awayGoals + 1, isSecondHalf)
               [] char = ";" ->
                    parseLoop(matchResult, i + 1, homeGoals, awayGoals, TRUE)
               [] OTHER ->
                    parseLoop(matchResult, i + 1, homeGoals, awayGoals, isSecondHalf)

\* parseMatchResultToDisplay of MatchResultParser.ts; reading .length of
\* null or undefined throws a TypeError, which the catch turns into the
\* default string
parseMatchResultToDisplay(matchResult) ==
    IF matchResult.type # "string"
    THEN <<0, ":", 0, " (", "First Half", ")">>
    ELSE parseLoop(matchResult.chars, 0, 0, 0, FALSE)

\* variant: no try/catch around the scan, the TypeError escapes
MatchViewModel_parseMatchResultToDisplay_noCatch(matchResult) ==
    IF matchResult.type # "string"
    THEN <<"TypeError">>
    ELSE parseLoop(matchResult.chars, 0, 0, 0, FALSE)

\* the private copy of the parser in MatchViewModel.ts
MatchViewModel_parseMatchResultToDisplay(matchResult) ==
    IF matchResult.type # "string"
    THEN <<0, ":", 0, " (", "First Half", ")">>
    ELSE parseLoop(matchResult.chars, 0, 0, 0, FALSE)

InitParser ==
    /\ parseInput \in JsValues(MaxLen)
    /\ parsedBy = "none"
    /\ display = <<>>

IdleParser ==
    /\ parseInput = JsString(<<>>)
    /\ parsedBy = "none"
    /\ display = <<>>

ParseToDisplay ==
    /\ display' = parseMatchResultToDisplay(parseInput)
    /\ parsedBy' = "MatchResultParser"
    /\ UNCHANGED parseInput

ViewModelParseToDisplay ==
    /\ display' = MatchViewModel_parseMatchResultToDisplay(parseInput)
    /\ parsedBy' = "MatchViewModel"
    /\ UNCHANGED parseInput

(***************************************************************************)
(* JavaScript numbers.  Every number of the budget engine is an IEEE 754   *)
(* double; the amounts are kept bit-exact, so that rounding is what the    *)
(* program does.  A nonzero double is sign * mant * 2^exp with mant a      *)
(* tuple of Precision bits, most significant first, mant[1] = 1.  The      *)
(* values met here are far from the subnormal and the overflow range, and  *)
(* -0 is not told apart from 0 (they are equal under === and under +).     *)
(* Carries are computed by look-ahead, so that no operator recurses.       *)
(***************************************************************************)
Precision == 53

fZero == [sign |-> 0, exp |-> 0, mant |-> <<>>]

zeros(cnt) == [i \in 1..cnt |-> 0]

bitLen(num) == CHOOSE k \in 0..30 : num < 2^k /\ (k = 0 \/ 2^(k - 1) <= num)

natBits(num) == [i \in 1..bitLen(num) |-> (num \div 2^(bitLen(num) - i)) % 2]

stripZeros(xbits) ==
    IF \A i \in 1..Len(xbits) : xbits[i] = 0 THEN <<>>
    ELSE SubSeq(xbits, CHOOSE i \in 1..Len(xbits) : xbits[i] = 1 /\ \A j \in 1..(i - 1) : xbits[j] = 0, Len(xbits))

padTo(xbits, cnt) == zeros(cnt - Len(xbits)) \o xbits

\* xbits + ybits, two tuples of the same length; the sum is one bit longer
addBits(xbits, ybits) ==
    LET len == Len(xbits)
        carry(pos) == IF \E j \in (pos + 1)..len : /\ xbits[j] = 1 /\ ybits[j] = 1
                                                  /\ \A k \in (pos + 1)..(j - 1) : xbits[k] + ybits[k] = 1
                      THEN 1 ELSE 0
    IN [i \in 1..(len + 1) |-> IF i = 1 THEN carry(0) ELSE (xbits[i - 1] + ybits[i - 1] + carry(i - 1)) % 2]

\* xbits - ybits, two tuples of the same length with xbits >= ybits
subBits(xbits, ybits) ==
    LET len == Len(xbits)
        borrow(pos) == IF \E j \in (pos + 1)..len : /\ xbits[j] = 0 /\ ybits[j] = 1
                                                   /\ \A k \in (pos + 1)..(j - 1) : xbits[k] = ybits[k]
                       THEN 1 ELSE 0
    IN [i \in 1..len |-> (xbits[i] - ybits[i] - borrow(i) + 2) % 2]

addNat(xbits, ybits) ==
    LET len == IF Len(xbits) > Len(ybits) THEN Len(xbits) ELSE Len(ybits)
    IN addBits(padTo(xbits, len), padTo(ybits, len))

\* xbits * num for 0 <= num < 64, the sum of the shifted copies of xbits
mulBits(xbits, num) ==
    LET term(k) == IF (num \div 2^k) % 2 = 1 THEN xbits \o zeros(k) ELSE <<>>
    IN addNat(addNat(addNat(term(0), term(1)), addNat(term(2), term(3))), addNat(term(4), term(5)))

lessBits(xbits, ybits) == \E i \in 1..Len(xbits) : xbits[i] < ybits[i] /\ \A j \in 1..(i - 1) : xbits[j] = ybits[j]

\* round sign * xbits * 2^lsb to the nearest double, ties to even;
\* sticky says that nonzero digits were dropped below xbits already
fRound(sign, xbits, lsb, sticky) ==
    LET b == stripZeros(xbits)
        len == Len(b)
    IN IF len = 0 THEN fZero
       ELSE IF len <= Precision
       THEN [sign |-> sign, exp |-> lsb - (Precision - len), mant |-> b \o zeros(Precision - len)]
       ELSE LET keep == SubSeq(b, 1, Precision)
                guard == b[Precision + 1]
                rest == sticky \/ \E i \in (Precision + 2)..len : b[i] = 1
                up == guard = 1 /\ (rest \/ keep[Precision] = 1)
                inc == addBits(keep, zeros(Precision - 1) \o <<1>>)
            IN IF ~up THEN [sign |-> sign, exp |-> lsb + (len - Precision), mant |-> keep]
               ELSE IF inc[1] = 1
               THEN [sign |-> sign, exp |-> lsb + (len - Precision) + 1, mant |-> SubSeq(inc, 1, Precision)]
               ELSE [sign |-> sign, exp |-> lsb + (len - Precision), mant |-> Tail(inc)]

fromInt(num) == fRound(IF num < 0 THEN -1 ELSE 1, natBits(IF num < 0 THEN -num ELSE num), 0, FALSE)

\* 2^k mod den, for k <= 75 and den < 200
pow2mod(k, den) ==
    LET hi == IF k < 15 THEN 1 ELSE (((2^15) % den)^(k \div 15)) % den
        lo == (2^(k % 15)) % den
    IN (hi * lo) % den

\* num / den for integers with 0 < den < 200: long division, FracLen digits after the point
fDivInt(num, den) ==
    LET m == IF num < 0 THEN -num ELSE num
        FracLen == Precision + 2 + bitLen(den)
        rem(k) == ((m % den) * pow2mod(k, den)) % den
        frac == [k \in 1..FracLen |-> (2 * rem(k - 1)) \div den]
    IN fRound(IF num < 0 THEN -1 ELSE 1, natBits(m \div den) \o frac, -FracLen, rem(FracLen) # 0)

fMulNat(fx, num) == IF fx.sign = 0 \/ num = 0 THEN fZero ELSE fRound(fx.sign, mulBits(fx.mant, num), fx.exp, FALSE)

fAdd(fx, fy) ==
    IF fx.sign = 0 THEN fy ELSE IF fy.sign = 0 THEN fx ELSE
    LET lsb == IF fx.exp < fy.exp THEN fx.exp ELSE fy.exp
        xs == fx.mant \o zeros(fx.exp - lsb)
        ys == fy.mant \o zeros(fy.exp - lsb)
        len == IF Len(xs) > Len(ys) THEN Len(xs) ELSE Len(ys)
        xa == padTo(xs, len)
        ya == padTo(ys, len)
    IN IF fx.sign = fy.sign THEN fRound(fx.sign, addBits(xa, ya), lsb, FALSE)
       ELSE IF lessBits(xa, ya) THEN fRound(fy.sign, subBits(ya, xa), lsb, FALSE)
       ELSE fRound(fx.sign, subBits(xa, ya), lsb, FALSE)

\* fx * num for an integer num with -64 < num < 64
fMulInt(fx, num) ==
    IF num < 0 THEN [fMulNat(fx, -num) EXCEPT !.sign = -@] ELSE fMulNat(fx, num)

(***************************************************************************)
(* Dates.  A Dayjs value is an instant of local time: the number of its    *)
(* calendar day, counted from 2024-01-01 = 0, and the milliseconds since   *)
(* that day's midnight.  The zone's offset is taken as constant, so every  *)
(* day has 86400000 ms.                                                    *)
(***************************************************************************)
Dayjs(dayNumber, msOfDay) == [day |-> dayNumber, ms |-> msOfDay]

isLeapYear(year) == year % 4 = 0 /\ (year % 100 # 0 \/ year % 400 = 0)

daysBeforeYear(year) == 365 * (year - 2024) + Cardinality({z \in 2024..(year - 1) : isLeapYear(z)})

daysBeforeMonth(year, month) ==
    <<0, 31, 59, 90, 120, 151, 181, 212, 243, 273, 304, 334>>[month + 1]
        + (IF month >= 2 /\ isLeapYear(year) THEN 1 ELSE 0)

\* new Date(year, month, date) of JavaScript: month counts from 0, and a month
\* outside 0..11 rolls into the neighbouring year
newDate(year, month, date) ==
    LET y == year + (month \div 12)
        m == month % 12
    IN Dayjs(daysBeforeYear(y) + daysBeforeMonth(y, m) + (date - 1), 0)

digitValue(ch) == CHOOSE v \in 0..9 : <<"0", "1", "2", "3", "4", "5", "6", "7", "8", "9">>[v + 1] = ch

isDigit(ch) == ch \in {"0", "1", "2", "3", "4", "5", "6", "7", "8", "9"}

\* dayjs("YYYYMM"): the year is the first four digits, the month is the next
\* two less one, the day is 1, the time is midnight
parseYearMonth(s) ==
    LET year == 1000 * digitValue(s[1]) + 100 * digitValue(s[2]) + 10 * digitValue(s[3]) + digitValue(s[4])
        d2 == 10 * digitValue(s[5]) + digitValue(s[6])
    IN newDate(year, d2 - 1, 1)

\* the last millisecond of a day
EndOfDayMs == 86399999

endOfMonth(date) ==
    LET ym == CHOOSE p \in (2023..2027) \X (0..11) :
                  /\ newDate(p[1], p[2], 1).day <= date.day
                  /\ date.day < newDate(p[1], p[2] + 1, 1).day
    IN Dayjs(newDate(ym[1], ym[2] + 1, 1).day - 1, EndOfDayMs)

isAfter(date, other) == date.day > other.day \/ (date.day = other.day /\ date.ms > other.ms)

isBefore(date, other) == date.day < other.day \/ (date.day = other.day /\ date.ms < other.ms)

isSameOrBefore_day(date, other) == date.day <= other.day

isSameOrAfter_day(date, other) == date.day >= other.day

\* date.diff(other, 'day'): the milliseconds between the two, in days,
\* truncated toward zero
diff_day(date, other) ==
    LET dd == date.day - other.day
        dm == date.ms - other.ms
    IN IF dd > 0 /\ dm < 0 THEN dd - 1
       ELSE IF dd < 0 /\ dm > 0 THEN dd + 1
       ELSE dd

(***************************************************************************)
(* Budget (src/Budget.ts).  A Budget object is its two private fields; a   *)
(* YearMonth is a string, kept as its sequence of characters.              *)
(***************************************************************************)
JsNumber(num) == [type |-> "number", integer |-> TRUE, value |-> num]

\* a number that is not an integer, such as 100.5
JsNonInteger == [type |-> "number", integer |-> FALSE]

Throw(message) == [kind |-> "throw", message |-> message]

\* /^\d{6}$/.test(value)
isYYYYMM(s) == Len(s) = 6 /\ \A i \in 1..6 : isDigit(s[i])

YearMonth_set(budget, value) ==
    IF value.type # "string" \/ ~isYYYYMM(value.chars)
    THEN Throw("YearMonth must be a string in YYYYMM format")
    ELSE [kind |-> "return", value |-> [budget EXCEPT !.YearMonth = value.chars]]

Amount_set_anyNumber(budget, value) ==
    IF value.type # "number"
    THEN [kind |-> "throw", message |-> "Amount must be an integer"]
    ELSE [kind |-> "return", value |-> [budget EXCEPT !.Amount = IF value.integer THEN value.value ELSE 100]]

Amount_set(budget, value) ==
    IF value.type # "number" \/ ~value.integer
    THEN Throw("Amount must be an integer")
    ELSE [kind |-> "return", value |-> [budget EXCEPT !.Amount = value.value]]

\* new Budget(yearMonth, amount): both fields go through their setters
Budget_new(yearMonth, amount) ==
    LET blank == [YearMonth |-> <<>>, Amount |-> 0]
        first == YearMonth_set(blank, yearMonth)
    IN IF first.kind = "throw" THEN first ELSE Amount_set(first.value, amount)

firstDay(budget) == parseYearMonth(budget.YearMonth)

lastDay(budget) == endOfMonth(firstDay(budget))

daysOfBudget(budget) == diff_day(lastDay(budget), firstDay(budget)) + 1

dailyAmount(budget) == fDivInt(budget.Amount, daysOfBudget(budget))

(***************************************************************************)
(* Period.  src/Period.ts holds the class that BudgetManager and Budget    *)
(* import; src/MatchResultParser.ts holds a second Period class whose      *)
(* constructor validates and whose fields are readonly.  Both count the    *)
(* overlapping days the same way.  A Period object carries the class it    *)
(* was made by.                                                            *)
(***************************************************************************)
\* constructor of src/Period.ts
Period_new(start, end) == [kind |-> "return", value |-> [class |-> "Period", start |-> start, end |-> end]]

\* constructor of the Period class in src/MatchResultParser.ts
ReadonlyPeriod_new(start, end) ==
    IF isAfter(start, end)
    THEN Throw("Invalid period: start date must be before or equal to end date")
    ELSE [kind |-> "return", value |-> [class |-> "ReadonlyPeriod", start |-> start, end |-> end]]

\* Period.overlaps of the validating class: the two share a calendar day
overlaps(period, other) ==
    isSameOrBefore_day(period.start, other.end) /\ isSameOrAfter_day(period.end, other.start)

\* Period.getOverlap: the later start and the earlier end, compared as
\* instants, handed to the validating constructor
getOverlap(period, other) ==
    IF ~overlaps(period, other)
    THEN [kind |-> "return", value |-> JsNull]
    ELSE LET overlapStart == IF isAfter(period.start, other.start) THEN period.start ELSE other.start
             overlapEnd == IF isBefore(period.end, other.end) THEN period.end ELSE other.end
         IN ReadonlyPeriod_new(overlapStart, overlapEnd)

\* the month of a budget as a Period
createPeriod(budget) == Period_new(firstDay(budget), lastDay(budget)).value

overlappingDays_firstOperandOnly(period, another) ==
    IF another.start.day <= period.end.day /\ another.end.day >= period.start.day
    THEN (IF period.end.day - period.start.day > 0 /\ period.end.ms - period.start.ms < 0
          THEN period.end.day - period.start.day - 1
          ELSE IF period.end.day - period.start.day < 0 /\ period.end.ms - period.start.ms > 0
          THEN period.end.day - period.start.day + 1
          ELSE period.end.day - period.start.day) + 1
    ELSE 0

overlappingDays(period, another) ==
    IF isSameOrBefore_day(another.start, period.end) /\ isSameOrAfter_day(another.end, period.start)
    THEN LET effectiveStart == IF isAfter(period.start, another.start) THEN period.start ELSE another.start
             effectiveEnd == IF isBefore(period.end, another.end) THEN period.end ELSE another.end
         IN diff_day(effectiveEnd, effectiveStart) + 1
    ELSE 0

overlappingAmount(budget, period) == fMulInt(dailyAmount(budget), overlappingDays(period, createPeriod(budget)))

(***************************************************************************)
(* BudgetManager.QueryTotalAmount (src/unnamed/part_000).  The call is     *)
(* kept as a record: its arguments, how often it asked the budget service  *)
(* for its budgets, the mapped amounts and the reduced total.              *)
(***************************************************************************)
reduceSum_fromTheRight(amounts, cnt) ==
    IF cnt = 0 THEN fZero
    ELSE IF cnt = 1 THEN fAdd(fZero, amounts[1])
    ELSE IF cnt = 2 THEN fAdd(fAdd(fZero, amounts[2]), amounts[1])
    ELSE fAdd(fAdd(fAdd(fZero, amounts[3]), amounts[2]), amounts[1])

\* amounts.reduce((sum, amount) => sum + amount, 0) over the first cnt amounts
RECURSIVE reduceSum(_, _)
reduceSum(amounts, cnt) == IF cnt = 0 THEN fZero ELSE fAdd(reduceSum(amounts, cnt - 1), amounts[cnt])

queryTotalAmount_readsFirst(list, start, end) ==
    LET amounts == [i \in 1..Len(list) |-> overlappingAmount(list[i], Period_new(start, end).value)]
    IN IF isAfter(start, end)
       THEN [op |-> "QueryTotalAmount", start |-> start, end |-> end, kind |-> "throw",
             message |-> "Invalid date range", getAllCalls |-> 1]
       ELSE [op |-> "QueryTotalAmount", start |-> start, end |-> end, kind |-> "return",
             getAllCalls |-> 1, list |-> list, amounts |-> amounts,
             total |-> reduceSum(amounts, Len(amounts))]

\* QueryTotalAmount(start, end) when budgetService.getAll() returns list
queryTotalAmount(list, start, end) ==
    IF isAfter(start, end)
    THEN [op |-> "QueryTotalAmount", start |-> start, end |-> end, kind |-> "throw",
          message |-> "Invalid date range", getAllCalls |-> 0]
    ELSE LET amounts == [i \in 1..Len(list) |-> overlappingAmount(list[i], Period_new(start, end).value)]
         IN [op |-> "QueryTotalAmount", start |-> start, end |-> end, kind |-> "return",
             getAllCalls |-> 1, list |-> list, amounts |-> amounts,
             total |-> reduceSum(amounts, Len(amounts))]

(***************************************************************************)
(* Inputs of the budget engine.  The budgets are the first three of the    *)
(* budget service's own (src/BudgetService.ts); the instants lie around    *)
(* the turns of their months, at three times of day.                       *)
(***************************************************************************)
\* the decimal digits of num, width of them
toDigits(num, width) ==
    [i \in 1..width |-> <<"0", "1", "2", "3", "4", "5", "6", "7", "8", "9">>[((num \div 10^(width - i)) % 10) + 1]]

Budget(yearMonth, amount) == [YearMonth |-> toDigits(yearMonth, 6), Amount |-> amount]

MockBudgets == {Budget(202501, 15000), Budget(202502, 18000), Budget(202503, 22000)}

\* the lists getAll() may return: no month twice
BudgetLists ==
    UNION {{list \in [1..k -> MockBudgets] : \A i, j \in 1..k : i # j => list[i] # list[j]} : k \in 0..Cardinality(MockBudgets)}

\* 00:00, 06:00 and 18:00
TimesOfDay == {0, 21600000, 64800000}

Instants ==
    {Dayjs(date.day, t) : date \in {newDate(2025, 0, 30), newDate(2025, 0, 31), newDate(2025, 2, 6)}, t \in TimesOfDay}

YearMonthValues ==
    {JsString(toDigits(202501, 6)), JsString(toDigits(202502, 6)), JsString(toDigits(202500, 6)),
     JsString(toDigits(202513, 6)), JsString(toDigits(20251, 5)), JsString(toDigits(2025011, 7)),
     JsString(<<"2", "0", "2", "5", "-", "1">>), JsNumber(202501), JsNull}

AmountValues == {JsNumber(15000), JsNumber(0), JsNumber(-100), JsNonInteger, JsString(toDigits(100, 3))}

NoObject == [class |-> "none"]

(***************************************************************************)
(* Operations of the budget engine                                         *)
(***************************************************************************)
InitManager ==
    /\ budgets \in BudgetLists
    /\ queryArgs \in [start : Instants, end : Instants]
    /\ lastOp = NoCall

QueryTotalAmount ==
    /\ lastOp' = queryTotalAmount(budgets, queryArgs.start, queryArgs.end)
    /\ UNCHANGED <<budgets, queryArgs>>

(***************************************************************************)
(* BudgetService: the list mockBudgets and its add, update and delete.     *)
(* Each returns what the call returns or throws and the list it leaves.    *)
(***************************************************************************)
\* obj instanceof Budget
isBudget(obj) == "YearMonth" \in DOMAIN obj

\* list.findIndex(b => b.YearMonth === yearMonth), 0-based
findIndex(list, yearMonth) ==
    IF \E i \in 1..Len(list) : list[i].YearMonth = yearMonth
    THEN (CHOOSE i \in 1..Len(list) :
              list[i].YearMonth = yearMonth /\ \A j \in 1..(i - 1) : list[j].YearMonth # yearMonth) - 1
    ELSE -1

\* variant: add without the search for an existing YearMonth
BudgetService_add_noSearch(list, budget) ==
    IF ~isBudget(budget)
    THEN [kind |-> "throw", message |-> "Invalid budget object provided", list |-> list]
    ELSE [kind |-> "return", value |-> budget, list |-> Append(list, budget)]

BudgetService_add(list, budget) ==
    IF ~isBudget(budget)
    THEN [kind |-> "throw", message |-> "Invalid budget object provided", list |-> list]
    ELSE IF findIndex(list, budget.YearMonth) # -1
    THEN [kind |-> "throw", message |-> <<"Budget for YearMonth ", budget.YearMonth, " already exists">>,
          list |-> list]
    ELSE [kind |-> "return", value |-> budget, list |-> Append(list, budget)]

BudgetService_update(list, budget) ==
    IF ~isBudget(budget)
    THEN [kind |-> "throw", message |-> "Invalid budget object provided", list |-> list]
    ELSE LET index == findIndex(list, budget.YearMonth)
         IN  IF index = -1
             THEN [kind |-> "throw", message |-> <<"Budget for YearMonth ", budget.YearMonth, " not found">>,
                   list |-> list]
             ELSE [kind |-> "return", value |-> budget, list |-> [list EXCEPT ![index + 1] = budget]]

\* /^\d{6}$/.test(yearMonth): the argument is converted to a string first
testYYYYMM(value) ==
    CASE value.type = "string" -> isYYYYMM(value.chars)
      [] value.type = "number" -> value.integer /\ value.value \in 100000..999999
      [] OTHER -> FALSE

\* a number is === to no YearMonth, which are strings
BudgetService_delete(list, yearMonth) ==
    IF ~testYYYYMM(yearMonth)
    THEN [kind |-> "throw", message |-> <<"Invalid YearMonth format: ", yearMonth, ". Expected format: YYYYMM">>,
          list |-> list]
    ELSE LET index == IF yearMonth.type = "string" THEN findIndex(list, yearMonth.chars) ELSE -1
         IN  IF index = -1
             THEN [kind |-> "return", value |-> FALSE, list |-> list]
             ELSE [kind |-> "return", value |-> TRUE, list |-> removeAt(list, index)]

\* the first three budgets of mockBudgets
InitBudgetService ==
    /\ budgets = <<Budget(202501, 15000), Budget(202502, 18000), Budget(202503, 22000)>>
    /\ lastOp = NoCall

\* the budgets and the other values handed to add and update
BudgetArgs ==
    {Budget(ym, a) : ym \in {202501, 202502, 202503, 202504}, a \in {15000, 0}} \cup {NoObject}

\* the values handed to delete
DeleteArgs ==
    {JsString(toDigits(ym, 6)) : ym \in {202501, 202502, 202503, 202504}}
        \cup {JsString(toDigits(20251, 5)), JsNumber(202501), JsNull}

Add(budget) ==
    LET r == BudgetService_add(budgets, budget)
    IN  /\ budgets' = r.list
        /\ lastOp' = [op |-> "add", kind |-> r.kind, arg |-> budget, before |-> budgets, outcome |-> r]

Update(budget) ==
    LET r == BudgetService_update(budgets, budget)
    IN  /\ budgets' = r.list
        /\ lastOp' = [op |-> "update", kind |-> r.kind, arg |-> budget, before |-> budgets, outcome |-> r]

Delete(yearMonth) ==
    LET r == BudgetService_delete(budgets, yearMonth)
    IN  /\ budgets' = r.list
        /\ lastOp' = [op |-> "delete", kind |-> r.kind, arg |-> yearMonth, before |-> budgets, outcome |-> r]

\* midnight of 30 and 31 January, 1 February and 6 March 2025
Midnights == {newDate(2025, 0, 30), newDate(2025, 0, 31), newDate(2025, 1, 1), newDate(2025, 2, 6)}

\* a range and a day of it at which it is cut in two: start <= cut < end
InitRanges ==
    /\ budgets \in BudgetLists
    /\ queryArgs \in {r \in [start : Midnights, cut : Midnights, end : Midnights] :
                         r.start.day <= r.cut.day /\ r.cut.day < r.end.day}
    /\ lastOp = NoCall

\* three calls of QueryTotalAmount: the range, and its two parts, the
\* second of which begins on the day after the cut
QueryRanges ==
    /\ lastOp' = [op |-> "QueryRanges", kind |-> "return",
                  whole |-> queryTotalAmount(budgets, queryArgs.start, queryArgs.end),
                  left |-> queryTotalAmount(budgets, queryArgs.start, queryArgs.cut),
                  right |-> queryTotalAmount(budgets, Dayjs(queryArgs.cut.day + 1, 0), queryArgs.end)]
    /\ UNCHANGED <<budgets, queryArgs>>

NewBudget(yearMonth, amount) ==
    LET made == Budget_new(yearMonth, amount)
    IN /\ theBudget' = IF made.kind = "return" THEN made.value ELSE theBudget
       /\ lastOp' = [op |-> "Budget", yearMonth |-> yearMonth, amount |-> amount, kind |-> made.kind]

SetYearMonth(value) ==
    /\ theBudget # NoObject
    /\ LET set == YearMonth_set(theBudget, value)
       IN /\ theBudget' = IF set.kind = "return" THEN set.value ELSE theBudget
          /\ lastOp' = [op |-> "YearMonth", value |-> value, kind |-> set.kind]

SetAmount(value) ==
    /\ theBudget # NoObject
    /\ LET set == Amount_set(theBudget, value)
       IN /\ theBudget' = IF set.kind = "return" THEN set.value ELSE theBudget
          /\ lastOp' = [op |-> "Amount", value |-> value, kind |-> set.kind]

DailyAmount ==
    /\ theBudget # NoObject
    /\ lastOp' = [op |-> "dailyAmount", kind |-> "return", firstDay |-> firstDay(theBudget),
                  daysOfBudget |-> daysOfBudget(theBudget), value |-> dailyAmount(theBudget)]
    /\ UNCHANGED theBudget

\* the periods a query hands to overlappingAmount
QueryPeriods ==
    {Period_new(i[1], i[2]).value : i \in {p \in Instants \X Instants : ~isAfter(p[1], p[2])}}

\* the budgets the constructor makes of the values it accepts
Budgets ==
    {Budget_new(ym, a).value : ym \in {v \in YearMonthValues : YearMonth_set(NoObject, v).kind = "return"},
                               a \in {v \in AmountValues : Amount_set(NoObject, v).kind = "return"}}

\* budget.overlappingAmount(period) of the budget and the period at hand
OverlappingAmount ==
    /\ theBudget # NoObject
    /\ thePeriod # NoObject
    /\ lastOp' = [op |-> "overlappingAmount", kind |-> "return", budget |-> theBudget, period |-> thePeriod,
                  days |-> overlappingDays(thePeriod, createPeriod(theBudget)),
                  value |-> overlappingAmount(theBudget, thePeriod)]
    /\ UNCHANGED <<theBudget, thePeriod>>

NewPeriod(start, end) ==
    /\ thePeriod' = Period_new(start, end).value
    /\ lastOp' = [op |-> "Period", kind |-> "return"]

NewReadonlyPeriod(start, end) ==
    LET made == ReadonlyPeriod_new(start, end)
    IN /\ thePeriod' = IF made.kind = "return" THEN made.value ELSE thePeriod
       /\ lastOp' = [op |-> "ReadonlyPeriod", start |-> start, end |-> end, kind |-> made.kind]

SetStart(value) ==
    /\ thePeriod # NoObject
    /\ thePeriod.class = "Period"
    /\ thePeriod' = [thePeriod EXCEPT !.start = value]
    /\ lastOp' = [op |-> "start", kind |-> "return"]

SetEnd(value) ==
    /\ thePeriod # NoObject
    /\ thePeriod.class = "Period"
    /\ thePeriod' = [thePeriod EXCEPT !.end = value]
    /\ lastOp' = [op |-> "end", kind |-> "return"]

\* the periods handed to overlappingDays: the months of the budgets, and
\* the periods either constructor makes of two instants
OtherPeriods ==
    {createPeriod(b) : b \in MockBudgets}
        \cup {Period_new(i[1], i[2]).value : i \in {p \in Instants \X Instants : ~isAfter(p[1], p[2])}}

OverlappingDays(another) ==
    /\ thePeriod # NoObject
    /\ lastOp' = [op |-> "overlappingDays", kind |-> "return", period |-> thePeriod, another |-> another,
                  days |-> overlappingDays(thePeriod, another)]
    /\ UNCHANGED thePeriod

\* the valid periods of the validating class
ReadonlyPeriods ==
    {ReadonlyPeriod_new(i[1], i[2]).value : i \in {p \in Instants \X Instants : ~isAfter(p[1], p[2])}}

GetOverlap(another) ==
    /\ thePeriod # NoObject
    /\ thePeriod.class = "ReadonlyPeriod"
    /\ lastOp' = [op |-> "getOverlap", period |-> thePeriod, another |-> another,
                  made |-> getOverlap(thePeriod, another), kind |-> getOverlap(thePeriod, another).kind]
    /\ UNCHANGED thePeriod

(***************************************************************************)
(* Specifications.  Each one runs one part of the program and leaves the   *)
(* variables of the other parts at rest.                                   *)
(***************************************************************************)
IdleUpdater ==
    /\ result = <<>>
    /\ lastInput = <<>>
    /\ lastEvent = 0
    /\ outcome = NoCall
    /\ halftime = atHalftime(<<>>)

IdleBudgetEngine ==
    /\ budgets = <<>>
    /\ queryArgs = NoCall
    /\ theBudget = NoObject
    /\ thePeriod = NoObject
    /\ lastOp = NoCall

Init ==
    /\ InitService
    /\ IdleUpdater
    /\ IdleParser
    /\ IdleBudgetEngine

Next ==
    \E matchId \in MatchIds, event \in Event \cup UnknownEvents :
        /\ MatchService_updateMatchResult(matchId, event)
        /\ UNCHANGED <<updVars, parseVars, budgetVars, callLog>>

Spec == Init /\ [][Next]_vars

InitU ==
    /\ InitService
    /\ InitUpdater
    /\ IdleParser
    /\ IdleBudgetEngine

NextU ==
    \E matchId \in MatchIds, event \in Event \cup UnknownEvents :
        /\ CallUpdater(matchId, event)
        /\ UNCHANGED <<svcVars, parseVars, budgetVars, halftime>>

SpecUpdater == InitU /\ [][NextU]_vars

\* a caller of the updater that remembers the first half at halftime
NextH ==
    \E matchId \in MatchIds, event \in Event \cup UnknownEvents :
        /\ CallUpdater(matchId, event)
        /\ halftime' = IF halftime.seen THEN halftime ELSE atHalftime(result')
        /\ UNCHANGED <<svcVars, parseVars, budgetVars>>

SpecHalftime == InitU /\ [][NextH]_vars

InitP ==
    /\ InitService
    /\ IdleUpdater
    /\ InitParser
    /\ IdleBudgetEngine

NextP ==
    \/ ParseToDisplay /\ UNCHANGED <<svcVars, updVars, budgetVars>>
    \/ ViewModelParseToDisplay /\ UNCHANGED <<svcVars, updVars, budgetVars>>

SpecParser == InitP /\ [][NextP]_vars

\* a caller that keeps the log of its calls and stops after MaxCalls
NextL ==
    \E matchId \in MatchIds, event \in Event \cup UnknownEvents :
        /\ Len(callLog) < MaxCalls
        /\ MatchService_updateMatchResult(matchId, event)
        /\ callLog' = Append(callLog, [matchId |-> matchId, event |-> event])
        /\ UNCHANGED <<updVars, parseVars, budgetVars>>

SpecServiceLog == Init /\ [][NextL]_vars

IdleMatch ==
    /\ InitService
    /\ IdleUpdater
    /\ IdleParser

InitM ==
    /\ IdleMatch
    /\ InitManager
    /\ theBudget = NoObject
    /\ thePeriod = NoObject

NextM == QueryTotalAmount /\ UNCHANGED <<matchVars, theBudget, thePeriod>>

SpecManager == InitM /\ [][NextM]_vars

InitB ==
    /\ IdleMatch
    /\ IdleBudgetEngine

NextB ==
    \/ \E yearMonth \in YearMonthValues, amount \in AmountValues :
           NewBudget(yearMonth, amount) /\ UNCHANGED <<matchVars, budgets, queryArgs, thePeriod>>
    \/ \E value \in YearMonthValues :
           SetYearMonth(value) /\ UNCHANGED <<matchVars, budgets, queryArgs, thePeriod>>
    \/ \E value \in AmountValues :
           SetAmount(value) /\ UNCHANGED <<matchVars, budgets, queryArgs, thePeriod>>
    \/ DailyAmount /\ UNCHANGED <<matchVars, budgets, queryArgs, thePeriod>>

SpecBudget == InitB /\ [][NextB]_vars

InitS ==
    /\ IdleMatch
    /\ InitBudgetService
    /\ queryArgs = NoCall
    /\ theBudget = NoObject
    /\ thePeriod = NoObject

NextS ==
    \/ \E budget \in BudgetArgs : Add(budget) /\ UNCHANGED <<matchVars, queryArgs, theBudget, thePeriod>>
    \/ \E budget \in BudgetArgs : Update(budget) /\ UNCHANGED <<matchVars, queryArgs, theBudget, thePeriod>>
    \/ \E yearMonth \in DeleteArgs : Delete(yearMonth) /\ UNCHANGED <<matchVars, queryArgs, theBudget, thePeriod>>

SpecBudgetService == InitS /\ [][NextS]_vars

InitR ==
    /\ IdleMatch
    /\ InitRanges
    /\ theBudget = NoObject
    /\ thePeriod = NoObject

NextR == QueryRanges /\ UNCHANGED <<matchVars, theBudget, thePeriod>>

SpecRanges == InitR /\ [][NextR]_vars

InitA ==
    /\ IdleMatch
    /\ budgets = <<>>
    /\ queryArgs = NoCall
    /\ theBudget \in Budgets
    /\ thePeriod \in QueryPeriods
    /\ lastOp = NoCall

NextA == OverlappingAmount /\ UNCHANGED <<matchVars, budgets, queryArgs>>

SpecAmount == InitA /\ [][NextA]_vars

NextOfPeriod ==
    \/ \E start \in Instants, end \in Instants :
           NewPeriod(start, end) /\ UNCHANGED <<matchVars, budgets, queryArgs, theBudget>>
    \/ \E start \in Instants, end \in Instants :
           NewReadonlyPeriod(start, end) /\ UNCHANGED <<matchVars, budgets, queryArgs, theBudget>>
    \/ \E value \in Instants :
           SetStart(value) /\ UNCHANGED <<matchVars, budgets, queryArgs, theBudget>>
    \/ \E value \in Instants :
           SetEnd(value) /\ UNCHANGED <<matchVars, budgets, queryArgs, theBudget>>
    \/ \E another \in OtherPeriods :
           OverlappingDays(another) /\ UNCHANGED <<matchVars, budgets, queryArgs, theBudget>>
    \/ \E another \in ReadonlyPeriods :
           GetOverlap(another) /\ UNCHANGED <<matchVars, budgets, queryArgs, theBudget>>

SpecPeriod == InitB /\ [][NextOfPeriod]_vars

(***************************************************************************)
(* Vocabulary of the properties.  Positions are 1-based sequence indices.  *)
(***************************************************************************)
\* an updater call has been made
Called == outcome.kind # "none"

\* the last updater call returned a string
Returned == outcome.kind = "return"

\* the last updater call threw
Threw == outcome.kind = "throw"

IsCancel(e) == e \in {CancelHomeGoal, CancelAwayGoal}

\* the character a cancel event removes
Target(e) == IF e = CancelHomeGoal THEN "H" ELSE "A"

\* positions of ch in s
Occ(s, ch) == {p \in 1..Len(s) : s[p] = ch}

Greatest(S) == CHOOSE m \in S : \A n \in S : n <= m

Least(S) == CHOOSE m \in S : \A n \in S : m <= n

\* positions of ch after the first ";" of s (s contains ";")
AfterFirstSemi(s, ch) == {p \in Occ(s, ch) : p > Least(Occ(s, ";"))}

\* s with the character at position p deleted
Without(s, p) == [q \in 1..(Len(s) - 1) |-> IF q < p THEN s[q] ELSE s[q + 1]]

\* the cases in which a cancel of character ch on s has nothing to remove
NothingToCancel(s, ch) ==
    \/ s = <<>>
    \/ Occ(s, ";") = {} /\ Occ(s, ch) = {}
    \/ /\ Occ(s, ";") # {}
       /\ AfterFirstSemi(s, ch) = {}
       /\ \/ Least(Occ(s, ";")) = 1
          \/ s[Least(Occ(s, ";")) - 1] # ch

\* the calls that end in an UpdateMatchResultException
MustFail(s, e) ==
    \/ e \notin Event
    \/ IsCancel(e) /\ NothingToCancel(s, Target(e))

(***************************************************************************)
(* C1: on a string without ';', a cancel event removes the last occurrence *)
(* of its target character ('H' for CancelHomeGoal, 'A' for                *)
(* CancelAwayGoal) and nothing else.                                       *)
(***************************************************************************)
C1_CancelRemovesLastInFirstHalf ==
    (/\ Called
     /\ IsCancel(lastEvent)
     /\ Occ(lastInput, ";") = {}
     /\ Occ(lastInput, Target(lastEvent)) # {})
    => outcome = Return(Without(lastInput, Greatest(Occ(lastInput, Target(lastEvent)))))

C1_Witness ==
    /\ lastEvent = CancelHomeGoal
    /\ lastInput = <<"H", "A", "H", "A">>
    /\ outcome = Return(<<"H", "A", "A">>)

C3_CancelFallsBackToCharBeforeSemicolon ==
    (/\ Called
     /\ IsCancel(lastEvent)
     /\ Occ(lastInput, ";") # {}
     /\ AfterFirstSemi(lastInput, Target(lastEvent)) = {}
     /\ Least(Occ(lastInput, ";")) > 1
     /\ lastInput[Least(Occ(lastInput, ";")) - 1] = Target(lastEvent))
    => outcome = Return(Without(lastInput, Least(Occ(lastInput, ";")) - 1))

C3_Witness ==
    /\ lastEvent = CancelHomeGoal
    /\ lastInput = <<"A", "H", "H", ";", "A">>
    /\ outcome = Return(<<"A", "H", ";", "A">>)

C5_ServiceKeepsDataAndReportsOnFailure ==
    (response # <<>> /\ MustFail(originalMatchData, svcEvent))
    => /\ mockMatchData = originalMatchData
       /\ response = <<"Update Match Result Exception, Event: ", svcEvent,
                       ", originalMatchResult: ", originalMatchData>>

C5_Witness ==
    /\ svcEvent = CancelHomeGoal
    /\ originalMatchData = <<"H", "H", "A", ";", "A">>
    /\ mockMatchData = <<"H", "H", "A", ";", "A">>
    /\ response = <<"Update Match Result Exception, Event: ", 3,
                    ", originalMatchResult: ", <<"H", "H", "A", ";", "A">> >>

C7_GoalAppends ==
    /\ (Called /\ lastEvent = HomeGoal) => outcome = Return(Append(lastInput, "H"))
    /\ (Called /\ lastEvent = AwayGoal) => outcome = Return(Append(lastInput, "A"))

C7_Witness ==
    /\ lastEvent = AwayGoal
    /\ lastInput = <<"H", ";", "x", "H">>
    /\ outcome = Return(<<"H", ";", "x", "H", "A">>)

(***************************************************************************)
(* C8: NextPeriod returns the input followed by ';' when the input has no  *)
(* ';', and the input unchanged when it has one; applying NextPeriod to    *)
(* its own result returns that result.                                     *)
(***************************************************************************)
C8_NextPeriodIdempotent ==
    (Called /\ lastEvent = NextPeriod)
    => /\ outcome = Return(IF Occ(lastInput, ";") = {}
                           THEN Append(lastInput, ";") ELSE lastInput)
       /\ \A matchId \in MatchIds :
              updateMatchResult(matchId, NextPeriod, outcome.value) = outcome

C8_Witness ==
    /\ lastEvent = NextPeriod
    /\ lastInput = <<"H", "H", "A">>
    /\ outcome = Return(<<"H", "H", "A", ";">>)

(***************************************************************************)
(* C9: no event, successful or failed, takes a string with at most one ';' *)
(* to a string with more than one ';'.                                     *)
(***************************************************************************)
C9_AtMostOneSemicolon ==
    [][Cardinality(Occ(result, ";")) <= 1 => Cardinality(Occ(result', ";")) <= 1]_vars

C9_Witness ==
    /\ lastEvent = NextPeriod
    /\ Cardinality(Occ(lastInput, ";")) = 1
    /\ Occ(lastInput, "H") # {}
    /\ Returned
    /\ Cardinality(Occ(result, ";")) = 1

(***************************************************************************)
(* C10: a cancel issued directly after a goal of the same team returns the *)
(* string the goal was applied to, for every string.                       *)
(***************************************************************************)
C10_CancelUndoesGoal ==
    [][/\ (Returned /\ lastEvent = HomeGoal /\ lastEvent' = CancelHomeGoal)
          => outcome' = Return(lastInput)
       /\ (Returned /\ lastEvent = AwayGoal /\ lastEvent' = CancelAwayGoal)
          => outcome' = Return(lastInput)]_vars

C10_Witness ==
    /\ lastEvent = CancelHomeGoal
    /\ lastInput = <<"H", "A", ";", "H">>
    /\ outcome = Return(<<"H", "A", ";">>)

(***************************************************************************)
(* C11: a tag outside the five defined tags makes updateMatchResult throw  *)
(* for every input string, and every exception it throws carries the       *)
(* triggering event and the input string as passed.                        *)
(***************************************************************************)
C11_ExceptionCarriesEventAndInput ==
    /\ (Called /\ lastEvent \notin Event) => Threw
    /\ Threw => /\ outcome.event = lastEvent
                /\ outcome.originalMatchResult = lastInput

C11_Witness ==
    /\ lastEvent = 999
    /\ lastInput = <<"H", "H", "A">>
    /\ Threw
    /\ outcome.originalMatchResult = <<"H", "H", "A">>

(***************************************************************************)
(* C12: parseMatchResultToDisplay reports the number of 'H' as home goals, *)
(* the number of 'A' as away goals and second half exactly when the string *)
(* holds a ';'; other characters and further ';' change nothing.           *)
(***************************************************************************)
C12_DisplayCountsGoals ==
    (parsedBy = "MatchResultParser" /\ parseInput.type = "string")
    => display = <<Cardinality(Occ(parseInput.chars, "H")), ":",
                   Cardinality(Occ(parseInput.chars, "A")), " (",
                   IF Occ(parseInput.chars, ";") # {}
                   THEN "Second Half" ELSE "First Half", ")">>

C12_Witness ==
    /\ parsedBy = "MatchResultParser"
    /\ parseInput = JsString(<<"H", ";", "x", ";", "A">>)
    /\ display = <<1, ":", 1, " (", "Second Half", ")">>

(***************************************************************************)
(* C13: the parser of MatchViewModel returns a display string for every    *)
(* input and never fails; the empty string, null and undefined give        *)
(* '0:0 (First Half)'.                                                     *)
(***************************************************************************)
C13_DisplayIsTotal ==
    parsedBy = "MatchViewModel"
    => /\ Len(display) = 6
       /\ display[1] \in Nat /\ display[3] \in Nat
       /\ display[5] \in {"First Half", "Second Half"}
       /\ (parseInput.type # "string" \/ parseInput.chars = <<>>)
          => display = <<0, ":", 0, " (", "First Half", ")">>

C13_Witness ==
    /\ parsedBy = "MatchViewModel"
    /\ parseInput.type = "undefined"
    /\ display = <<0, ":", 0, " (", "First Half", ")">>

(***************************************************************************)
(* Vocabulary of the budget claims: the calendar as the specification      *)
(* speaks of it, stated without the program's date arithmetic.             *)
(***************************************************************************)
Did(name) == lastOp.kind # "none" /\ lastOp.op = name

\* a is a later instant than b
Later(a, b) == a.day > b.day \/ (a.day = b.day /\ a.ms > b.ms)

ValidPeriod(p) == ~Later(p.start, p.end)

\* the calendar days of a period
DaysOf(p) == p.start.day..p.end.day

YearOf(b) == 1000 * digitValue(b.YearMonth[1]) + 100 * digitValue(b.YearMonth[2])
                 + 10 * digitValue(b.YearMonth[3]) + digitValue(b.YearMonth[4])

\* the month part of a YearMonth, 1..12 when it names a month
MonthOf(b) == 10 * digitValue(b.YearMonth[5]) + digitValue(b.YearMonth[6])

ValidBudget(b) == Len(b.YearMonth) = 6 /\ (\A i \in 1..6 : isDigit(b.YearMonth[i])) /\ MonthOf(b) \in 1..12

\* the calendar length of month mo (1..12) of year yr
daysInMonth(yr, mo) ==
    IF mo = 2 THEN (IF isLeapYear(yr) THEN 29 ELSE 28)
    ELSE IF mo \in {4, 6, 9, 11} THEN 30 ELSE 31

\* the calendar days of the month a valid budget names
MonthDays(b) ==
    LET before == {k \in 1..(MonthOf(b) - 1) : TRUE}
        RECURSIVE total(_)
        total(S) == IF S = {} THEN 0 ELSE LET k == CHOOSE k \in S : TRUE IN daysInMonth(YearOf(b), k) + total(S \ {k})
        first == daysBeforeYear(YearOf(b)) + total(before)
    IN first..(first + daysInMonth(YearOf(b), MonthOf(b)) - 1)

\* the amounts in the order f, a permutation of their indices
Permuted(amounts, f) == [i \in 1..Len(amounts) |-> amounts[f[i]]]

\* C14: for a valid budget and a valid query period, overlappingAmount is
\* Amount / daysInMonth times the number of days of the budget's month that
\* lie inside the period.
C14_OverlappingAmountIsDailyTimesDays ==
    (Did("QueryTotalAmount") /\ lastOp.kind = "return") =>
        \A i \in 1..Len(lastOp.list) :
            LET b == lastOp.list[i]
            IN ValidBudget(b) =>
                   lastOp.amounts[i] =
                       fMulNat(fDivInt(b.Amount, daysInMonth(YearOf(b), MonthOf(b))),
                               Cardinality(MonthDays(b) \cap (lastOp.start.day..lastOp.end.day)))

\* C15: for valid periods A and B, overlappingDays(A, B) is the number of
\* calendar days that belong to both, whatever the times of day of the four
\* endpoints.
C15_OverlappingDaysCountsSharedCalendarDays ==
    (Did("overlappingDays") /\ ValidPeriod(lastOp.period) /\ ValidPeriod(lastOp.another)) =>
        lastOp.days = Cardinality(DaysOf(lastOp.period) \cap DaysOf(lastOp.another))

\* C16: for valid periods A and B, overlappingDays(A, B) equals
\* overlappingDays(B, A), and it is 0 when A and B share no calendar day.
C16_OverlappingDaysSymmetric ==
    (Did("overlappingDays") /\ ValidPeriod(lastOp.period) /\ ValidPeriod(lastOp.another)) =>
        /\ overlappingDays(lastOp.another, lastOp.period) = lastOp.days
        /\ DaysOf(lastOp.period) \cap DaysOf(lastOp.another) = {} => lastOp.days = 0

C16_Witness ==
    /\ Did("overlappingDays")
    /\ ValidPeriod(lastOp.period) /\ ValidPeriod(lastOp.another)
    /\ lastOp.period.start # lastOp.another.start
    /\ lastOp.period.end # lastOp.another.end
    /\ lastOp.days > 1

\* the amounts added from left to right, starting from 0; no list of the
\* budget service's three budgets is longer than three
SumInOrder(amounts) ==
    IF Len(amounts) = 0 THEN fZero
    ELSE IF Len(amounts) = 1 THEN fAdd(fZero, amounts[1])
    ELSE IF Len(amounts) = 2 THEN fAdd(fAdd(fZero, amounts[1]), amounts[2])
    ELSE fAdd(fAdd(fAdd(fZero, amounts[1]), amounts[2]), amounts[3])

\* the budgets of the list whose amount for the queried period is not 0
Overlapping(amounts) == {i \in 1..Len(amounts) : amounts[i] # fZero}

C18_InvalidRangeBeforeAnyBudgetIsRead ==
    Did("QueryTotalAmount") =>
        /\ lastOp.start = queryArgs.start /\ lastOp.end = queryArgs.end
        /\ Later(lastOp.start, lastOp.end) <=> lastOp.kind = "throw"
        /\ lastOp.kind = "throw" =>
               /\ lastOp.message = "Invalid date range"
               /\ lastOp.getAllCalls = 0
               /\ DOMAIN lastOp \cap {"list", "amounts", "total"} = {}
        /\ lastOp.start = lastOp.end => lastOp.kind = "return"

C18_Witness ==
    /\ Did("QueryTotalAmount")
    /\ lastOp.kind = "throw"
    /\ Later(queryArgs.start, queryArgs.end)
    /\ queryArgs.start.day = queryArgs.end.day
    /\ Len(budgets) > 0

\* C19: every Period that exists has its start not after its end.
C19_PeriodStartNotAfterEnd ==
    thePeriod # NoObject => ~Later(thePeriod.start, thePeriod.end)

\* C20: every Budget that exists has a YearMonth whose month part is in
\* 01..12; a value such as 202500 or 202513 is rejected and never reaches
\* dailyAmount.
C20_YearMonthIsCalendarMonth ==
    /\ theBudget # NoObject => ValidBudget(theBudget)
    /\ (Did("Budget") /\ lastOp.yearMonth.type = "string" /\ isYYYYMM(lastOp.yearMonth.chars)
           /\ MonthOf([YearMonth |-> lastOp.yearMonth.chars]) \notin 1..12) => lastOp.kind = "throw"

\* a string of exactly six digits
SixDigits(v) == v.type = "string" /\ Len(v.chars) = 6 /\ \A i \in 1..6 : v.chars[i] \in {"0", "1", "2", "3", "4", "5", "6", "7", "8", "9"}

\* an integer number, of either sign or zero
IntegerNumber(v) == v.type = "number" /\ v.integer

\* the operation just done, in a step
Does(name) == lastOp'.kind # "none" /\ lastOp'.op = name

\* C21: the constructor and both setters of a Budget accept a YearMonth
\* exactly when it is a string of six digits and an Amount exactly when it
\* is an integer (negative and zero included); an accepted value is the one
\* stored, and a rejected one raises an error and leaves both fields of the
\* Budget as they were.
C21_BudgetValidatesEveryAssignment ==
    [][/\ Does("Budget") =>
              /\ lastOp'.kind = "return" <=> (SixDigits(lastOp'.yearMonth) /\ IntegerNumber(lastOp'.amount))
              /\ lastOp'.kind = "return" =>
                     theBudget' = [YearMonth |-> lastOp'.yearMonth.chars, Amount |-> lastOp'.amount.value]
              /\ lastOp'.kind = "throw" => theBudget' = theBudget
       /\ Does("YearMonth") =>
              /\ lastOp'.kind = "return" <=> SixDigits(lastOp'.value)
              /\ lastOp'.kind = "return" =>
                     theBudget' = [YearMonth |-> lastOp'.value.chars, Amount |-> theBudget.Amount]
              /\ lastOp'.kind = "throw" => theBudget' = theBudget
       /\ Does("Amount") =>
              /\ lastOp'.kind = "return" <=> IntegerNumber(lastOp'.value)
              /\ lastOp'.kind = "return" =>
                     theBudget' = [YearMonth |-> theBudget.YearMonth, Amount |-> lastOp'.value.value]
              /\ lastOp'.kind = "throw" => theBudget' = theBudget]_vars

C21_Witness ==
    /\ Did("Amount")
    /\ lastOp.kind = "throw"
    /\ lastOp.value = JsNonInteger
    /\ theBudget # NoObject
    /\ theBudget.Amount < 0

RECURSIVE FoldSucceeded(_, _, _)
FoldSucceeded(s, log, k) ==
    IF k = 0 THEN s
    ELSE LET before == FoldSucceeded(s, log, k - 1)
             r == updateMatchResult(0, log[k].event, before)
         IN IF r.kind = "return" THEN r.value ELSE before

\* C23: after any sequence of MatchService.updateMatchResult calls, with
\* any match ids, queryMatchResult returns for every match id the string
\* obtained from 'HHA;A' by applying, in call order, the events that
\* succeeded.
C23_ServiceIsFoldOfSucceededEvents ==
    \A id \in MatchIds \cup {0, 789} :
        queryMatchResult(id) = FoldSucceeded(<<"H", "H", "A", ";", "A">>, callLog, Len(callLog))

C23_Witness ==
    /\ Len(callLog) = 3
    /\ callLog[1].event = CancelHomeGoal /\ callLog[1].matchId = 123
    /\ callLog[2].event = HomeGoal /\ callLog[2].matchId = 456
    /\ callLog[3].event = CancelAwayGoal
    /\ mockMatchData = <<"H", "H", "A", ";", "H">>

\* the later of two instants and the earlier of two instants
LaterOf(a, b) == IF Later(a, b) THEN a ELSE b

EarlierOf(a, b) == IF Later(a, b) THEN b ELSE a

\* C24: for valid periods A and B with arbitrary times of day,
\* A.getOverlap(B) never fails: it returns null exactly when the two share
\* no calendar day, and otherwise a valid period from the later start to
\* the earlier end.
C24_GetOverlapNeverFails ==
    (Did("getOverlap") /\ ValidPeriod(lastOp.period) /\ ValidPeriod(lastOp.another)) =>
        /\ lastOp.made.kind = "return"
        /\ (lastOp.made.value = JsNull) <=> (DaysOf(lastOp.period) \cap DaysOf(lastOp.another) = {})
        /\ lastOp.made.value # JsNull =>
               /\ ValidPeriod(lastOp.made.value)
               /\ lastOp.made.value.start = LaterOf(lastOp.period.start, lastOp.another.start)
               /\ lastOp.made.value.end = EarlierOf(lastOp.period.end, lastOp.another.end)

\* the characters of the held string before its first ';'
FirstHalfNow == substring(result, 0, indexOf(result, ";"))

\* C25: once the string contains the half marker, at most one character of
\* the first half is ever removed by the later events: what is before the
\* marker is the first half as it stood at halftime, or that without its
\* last character.
C25_AtMostOneFirstHalfCharacterRemoved ==
    halftime.seen =>
        \/ FirstHalfNow = halftime.firstHalf
        \/ /\ halftime.firstHalf # <<>>
           /\ FirstHalfNow = substring(halftime.firstHalf, 0, Len(halftime.firstHalf) - 1)

\* what parseMatchResultToDisplay reads off a string
HomeGoalsOf(s) == parseMatchResultToDisplay(JsString(s))[1]

AwayGoalsOf(s) == parseMatchResultToDisplay(JsString(s))[3]

HalfOf(s) == parseMatchResultToDisplay(JsString(s))[5]

\* C26: the second half is irreversible: a string that contains ';' (the
\* parser reports the second half) contains ';' after every event, failed
\* or not, and its first ';' stays where it is or moves one place to the
\* left, the latter only by a cancellation that found no goal behind it.
\* lastInput is the string before the last event, result the one after.
C26_SecondHalfIsIrreversible ==
    (Called /\ includes(lastInput, ";") /\ HalfOf(lastInput) = "Second Half") =>
        /\ includes(result, ";")
        /\ HalfOf(result) = "Second Half"
        /\ \/ indexOf(result, ";") = indexOf(lastInput, ";")
           \/ /\ indexOf(result, ";") = indexOf(lastInput, ";") - 1
              /\ IsCancel(lastEvent)
              /\ AfterFirstSemi(lastInput, Target(lastEvent)) = {}

C26_Witness ==
    /\ Returned
    /\ IsCancel(lastEvent)
    /\ includes(lastInput, ";")
    /\ indexOf(result, ";") = indexOf(lastInput, ";") - 1

\* the score and the half the parser reads off s
Decoded(s) ==
    LET shown == parseMatchResultToDisplay(JsString(s))
    IN  <<shown[1], shown[3], shown[5]>>

SmallerMagnitude(fx, fy) ==
    IF fy.sign = 0 THEN FALSE
    ELSE IF fx.sign = 0 THEN TRUE
    ELSE fx.exp < fy.exp \/ (fx.exp = fy.exp /\ lessBits(fx.mant, fy.mant))

\* fx lies between 0 and the integer num, both included, on num's side of 0
BetweenZeroAnd(fx, num) ==
    /\ fx.sign = 0 \/ fx.sign = fromInt(num).sign
    /\ ~SmallerMagnitude(fromInt(num), fx)

\* C28: for a valid budget and a valid period the number of overlapping
\* days lies between 0 and the number of days of the budget's month and is
\* that number when the period contains the whole month; the overlapping
\* amount lies between 0 and Amount and is Amount when the period contains
\* the whole month.
C28_OverlappingAmountWithinAmount ==
    (Did("overlappingAmount") /\ ValidBudget(lastOp.budget) /\ ValidPeriod(lastOp.period)) =>
        LET month == MonthDays(lastOp.budget)
            whole == month \subseteq DaysOf(lastOp.period)
        IN  /\ lastOp.days \in 0..Cardinality(month)
            /\ whole => lastOp.days = Cardinality(month)
            /\ BetweenZeroAnd(lastOp.value, lastOp.budget.Amount)
            /\ whole => lastOp.value = fromInt(lastOp.budget.Amount)

\* C29: queryTotalAmount is additive over adjacent ranges of calendar days:
\* the total of a range is the sum of the totals of its part up to a day
\* and its part from the next day on.
C29_TotalIsAdditiveOverAdjacentRanges ==
    Did("QueryRanges") =>
        /\ lastOp.whole.kind = "return" /\ lastOp.left.kind = "return" /\ lastOp.right.kind = "return"
        /\ lastOp.whole.total = fAdd(lastOp.left.total, lastOp.right.total)

\* the last call of the budget service was rejected, or was a delete that
\* returned false
Rejected ==
    \/ lastOp.kind = "throw"
    \/ lastOp.op = "delete" /\ lastOp.outcome.value = FALSE

\* the YearMonth values of a list of budgets
YearMonthsOf(list) == {list[i].YearMonth : i \in 1..Len(list)}

\* C30: after any sequence of add, update and delete calls of the budget
\* service no two stored budgets have the same YearMonth; an add of an
\* existing YearMonth, an update of a missing one and a call with a
\* malformed YearMonth are rejected, and a rejected call and a delete that
\* returns false leave the stored list as it was.
C30_StoredYearMonthsAreUnique ==
    /\ \A i, j \in 1..Len(budgets) : i # j => budgets[i].YearMonth # budgets[j].YearMonth
    /\ (Did("add") \/ Did("update") \/ Did("delete")) =>
           /\ Rejected => budgets = lastOp.before
           /\ (lastOp.op = "add" /\ isBudget(lastOp.arg)
                   /\ lastOp.arg.YearMonth \in YearMonthsOf(lastOp.before)) => lastOp.kind = "throw"
           /\ (lastOp.op = "update" /\ isBudget(lastOp.arg)
                   /\ lastOp.arg.YearMonth \notin YearMonthsOf(lastOp.before)) => lastOp.kind = "throw"
           /\ (lastOp.op = "delete" /\ ~(lastOp.arg.type = "string" /\ SixDigits(lastOp.arg))) =>
                  Rejected

C30_Witness ==
    /\ Did("add")
    /\ lastOp.kind = "throw"
    /\ isBudget(lastOp.arg)
    /\ lastOp.arg.YearMonth \in YearMonthsOf(budgets)
    /\ Len(budgets) = 4
====
